---- MODULE Spec2Model ----
(***************************************************************************)
(* Column type inference of mage_ai.data_cleaner.column_types              *)
(* (column_type_detector.py): the pattern library, the numeric and the     *)
(* object classifier, the per-column dispatcher and the fan-out over the   *)
(* columns of a table.                                                     *)
(*                                                                         *)
(* Text is a TLA+ string.  The modelled alphabet is ASCII: the non-ASCII   *)
(* currency symbols of the NUMBER character classes are outside it.        *)
(***************************************************************************)
EXTENDS Integers, Sequences, FiniteSets, TLC

(***************************************************************************)
(* Regular expressions, as Python's re evaluates them for a yes/no match:  *)
(* Ends(re, s, i) is the set of positions at which a match of re that      *)
(* starts at position i of s can end.                                      *)
(***************************************************************************)
Chr(cs) == [k |-> "chr", cs |-> cs]

Cat(rs) == [k |-> "cat", rs |-> rs]

Alt(rs) == [k |-> "alt", rs |-> rs]

\* r{lo,hi}; hi = -1 stands for no upper limit
Rep(r, lo, hi) == [k |-> "rep", r |-> r, lo |-> lo, hi |-> hi]

Opt(r) == Rep(r, 0, 1)

Star(r) == Rep(r, 0, -1)

Plus(r) == Rep(r, 1, -1)

Bol == [k |-> "bol"]

Eol == [k |-> "eol"]

\* a literal word, character by character
Lit(w) == Cat([i \in 1..Len(w) |-> Chr({SubSeq(w, i, i)})])

RECURSIVE Ends(_, _, _)
Ends(re, s, i) ==
    CASE re.k = "chr" ->
           IF i <= Len(s) /\ SubSeq(s, i, i) \in re.cs THEN {i + 1} ELSE {}
      [] re.k = "bol" -> IF i = 1 THEN {i} ELSE {}
      [] re.k = "eol" -> IF i = Len(s) + 1 THEN {i} ELSE {}
      [] re.k = "cat" ->
           IF re.rs = <<>> THEN {i}
           ELSE UNION {Ends(Cat(Tail(re.rs)), s, j) : j \in Ends(Head(re.rs), s, i)}
      [] re.k = "alt" -> UNION {Ends(re.rs[n], s, i) : n \in DOMAIN re.rs}
      [] re.k = "rep" ->
           (IF re.lo = 0 THEN {i} ELSE {})
           \cup (IF re.hi = 0 THEN {}
                 ELSE UNION {Ends(Rep(re.r,
                                      IF re.lo = 0 THEN 0 ELSE re.lo - 1,
                                      IF re.hi = -1 THEN -1 ELSE re.hi - 1), s, j) :
                             j \in Ends(re.r, s, i) \ {i}})

\* pattern.match(s): a match that starts at the beginning of s
ReMatch(re, s) == Ends(re, s, 1) # {}

\* pattern.search(s): a match that starts anywhere in s
ReSearch(re, s) == \E i \in 1..(Len(s) + 1) : Ends(re, s, i) # {}

Digit == {"0", "1", "2", "3", "4", "5", "6", "7", "8", "9"}

Lower == {"a", "b", "c", "d", "e", "f", "g", "h", "i", "j", "k", "l", "m",
          "n", "o", "p", "q", "r", "s", "t", "u", "v", "w", "x", "y", "z"}

Upper == {"A", "B", "C", "D", "E", "F", "G", "H", "I", "J", "K", "L", "M",
          "N", "O", "P", "Q", "R", "S", "T", "U", "V", "W", "X", "Y", "Z"}

\* \s of the ASCII alphabet
Space == {" ", "\t", "\n", "\r", "\f"}

D == Chr(Digit)

S == Chr(Space)

DateSep == Chr({"-", "/"})

\* [Tt ]{1}\d{1,2}:\d{1,2}[:]{0,1}\d{1,2}[\.]{0,1}\d*
TimeSuffix ==
    Cat(<<Chr({"T", "t", " "}), Rep(D, 1, 2), Chr({":"}), Rep(D, 1, 2),
          Opt(Chr({":"})), Rep(D, 1, 2), Opt(Chr({"."})), Star(D)>>)

MonthName ==
    Alt(<<Cat(<<Lit("Jan"), Opt(Lit("uary"))>>), Cat(<<Lit("Feb"), Opt(Lit("ruary"))>>),
          Cat(<<Lit("Mar"), Opt(Lit("ch"))>>), Cat(<<Lit("Apr"), Opt(Lit("il"))>>),
          Lit("May"), Cat(<<Lit("Jun"), Opt(Lit("e"))>>),
          Cat(<<Lit("Jul"), Opt(Lit("y"))>>), Cat(<<Lit("Aug"), Opt(Lit("ust"))>>),
          Cat(<<Lit("Sep"), Opt(Lit("tember"))>>), Cat(<<Lit("Oct"), Opt(Lit("ober"))>>),
          Cat(<<Lit("Nov"), Opt(Lit("ember"))>>), Cat(<<Lit("Dec"), Opt(Lit("ember"))>>)>>)

REGEX_DATETIME ==
    Alt(<<Cat(<<Bol, Rep(D, 2, 4), Chr({"-"}), Rep(D, 1, 2), Chr({"-"}), Rep(D, 1, 2), Eol>>),
          Cat(<<Bol, Rep(D, 2, 4), Chr({"-"}), Rep(D, 1, 2), Chr({"-"}), Rep(D, 1, 2),
                TimeSuffix>>),
          Cat(<<Bol, Rep(D, 4, 4), Chr({"-"}), Rep(D, 2, 2), Chr({"-"}), Rep(D, 2, 2),
                Chr({"T"}), Rep(D, 2, 2), Chr({":"}), Rep(D, 2, 2), Chr({":"}),
                Rep(D, 2, 2), Chr({"."}), Rep(D, 3, 3), Chr({"Z"}), Eol>>),
          Cat(<<Bol, Rep(D, 1, 4), DateSep, Rep(D, 1, 2), DateSep, Rep(D, 1, 2), Eol>>),
          Cat(<<Bol, Rep(D, 1, 2), DateSep, Rep(D, 1, 2), DateSep, Rep(D, 1, 4), Eol>>),
          Cat(<<Bol, Rep(D, 1, 2), DateSep, Rep(D, 1, 2), DateSep, Rep(D, 2, 4),
                TimeSuffix>>),
          Cat(<<MonthName, Plus(S), Rep(D, 1, 2), Plus(Chr(Space \cup {","})),
                Rep(D, 2, 4)>>)>>)

REGEX_EMAIL ==
    Cat(<<Bol, Plus(Chr(Lower \cup Upper \cup Digit \cup {"_", ".", "+", "#", "-"})),
          Chr({"@"}), Plus(Chr(Lower \cup Upper \cup Digit \cup {"-"})), Chr({"."}),
          Plus(Chr(Lower \cup Upper \cup Digit \cup {"-", "."})), Eol>>)

\* (?:[0-9]+(?:,[0-9]+)*|[0-9]+){0,1}
DigitGroups ==
    Opt(Alt(<<Cat(<<Plus(D), Star(Cat(<<Chr({","}), Plus(D)>>))>>), Plus(D)>>))

\* (?:\.[0-9]*){0,1}
DecimalPart == Opt(Cat(<<Chr({"."}), Star(D)>>))

REGEX_NUMBER ==
    Cat(<<Bol, Opt(Chr({"-"})), Star(S),
          Alt(<<Cat(<<Opt(Alt(<<Chr({"$"}), Lit("Rs"), Lit("CAD")>>)), Star(S),
                      DigitGroups, DecimalPart>>),
                Cat(<<DigitGroups, DecimalPart, Star(S),
                      Opt(Alt(<<Chr({"$"}), Lit("CAD")>>))>>)>>),
          Star(S), Opt(Chr({"%"})), Eol>>)

REGEX_FLOAT_NEW_SYM == Chr({".", "%"})

REGEX_PHONE_NUMBER ==
    Cat(<<Bol, Star(S), Opt(Cat(<<Opt(Chr({"+"})), Rep(D, 1, 3)>>)),
          Star(Chr({"-", ".", " ", "("})), Rep(D, 3, 3),
          Star(Chr({"-", ".", " ", ")"})), Rep(D, 3, 3),
          Star(Chr({"-", ".", " "})), Rep(D, 4, 4),
          Opt(Cat(<<Star(Chr({" "})), Chr({"x"}), Plus(D)>>)), Star(S), Eol>>)

REGEX_ZIP_CODE ==
    Cat(<<Bol, Rep(D, 3, 5), Opt(Cat(<<Chr({"-"} \cup Space), Rep(D, 4, 4)>>)), Eol>>)

(***************************************************************************)
(* Values.  A cell of a column is a Python object: a str, an int, a float, *)
(* a bool, a timestamp or a null.  A number is m * 10^6 + u + h/2; the     *)
(* modelled numbers are not negative.                                      *)
(***************************************************************************)
StrV(s) == [t |-> "str", s |-> s, m |-> 0, u |-> 0, h |-> 0]

IntV(m, u) == [t |-> "int", s |-> "", m |-> m, u |-> u, h |-> 0]

FloatV(m, u, h) == [t |-> "float", s |-> "", m |-> m, u |-> u, h |-> h]

BoolV(b) == [t |-> "bool", s |-> "", m |-> 0, u |-> (IF b THEN 1 ELSE 0), h |-> 0]

DtV(u) == [t |-> "datetime", s |-> "", m |-> 0, u |-> u, h |-> 0]

NoneV == [t |-> "null", s |-> "", m |-> 0, u |-> 0, h |-> 0]

IsNull(v) == v.t = "null"

\* Python's == and hash put 1, 1.0 and True in one class: the key under which
\* pandas' object hash table counts a value
HashKey(v) == [v EXCEPT !.t = IF @ \in {"int", "float", "bool"} THEN "number" ELSE @]

\* v >= m * 10^6 + u for a whole bound
NumGeq(v, m, u) == v.m > m \/ (v.m = m /\ v.u >= u)

\* v <= m * 10^6 + u for a whole bound
NumLeq(v, m, u) == v.m < m \/ (v.m = m /\ (v.u < u \/ (v.u = u /\ v.h = 0)))

NumLess(v, m, u) == ~NumGeq(v, m, u)

\* np.floor(v) == v
IsWhole(v) == v.h = 0

(***************************************************************************)
(* A series is its cells vals, repeated tile times: vals \o vals \o ...    *)
(***************************************************************************)
Series(vals, tile) == [vals |-> vals, tile |-> tile]

\* len(series)
SeriesLen(series) == Len(series.vals) * series.tile

\* series.dropna()
DropNa(series) == [series EXCEPT !.vals = SelectSeq(@, LAMBDA v : ~IsNull(v))]

\* mask.sum(): the number of cells of the series at which the mask is True
MaskSum(series, mask) == Cardinality({i \in DOMAIN mask : mask[i]}) * series.tile

\* series.nunique(dropna=...)
NUnique(series, dropna) ==
    Cardinality({HashKey(series.vals[i]) :
                 i \in {j \in DOMAIN series.vals : series.tile > 0 /\ (dropna => ~IsNull(series.vals[j]))}})

(***************************************************************************)
(* Text helpers.                                                           *)
(***************************************************************************)
CharAt(s, i) == SubSeq(s, i, i)

\* entry in string
Contains(entry, string) ==
    \E i \in 1..(Len(string) - Len(entry) + 1) : SubSeq(string, i, i + Len(entry) - 1) = entry

UpperChars == "ABCDEFGHIJKLMNOPQRSTUVWXYZ"

LowerChars == "abcdefghijklmnopqrstuvwxyz"

LowerChar(c) ==
    IF \E i \in 1..26 : CharAt(UpperChars, i) = c
    THEN CharAt(LowerChars, CHOOSE i \in 1..26 : CharAt(UpperChars, i) = c)
    ELSE c

\* str.lower()
RECURSIVE ToLower(_)
ToLower(s) == IF s = "" THEN "" ELSE LowerChar(CharAt(s, 1)) \o ToLower(Tail(s))

StripChars == {" ", "'", "\""}

RECURSIVE LStrip(_)
LStrip(s) == IF s # "" /\ CharAt(s, 1) \in StripChars THEN LStrip(Tail(s)) ELSE s

RECURSIVE RStrip(_)
RStrip(s) ==
    IF s # "" /\ CharAt(s, Len(s)) \in StripChars THEN RStrip(SubSeq(s, 1, Len(s) - 1)) ELSE s

\* x.strip(' \'\"')
Strip(s) == RStrip(LStrip(s))

RECURSIVE Digits(_)
Digits(n) ==
    IF n < 10 THEN CharAt("0123456789", n + 1)
    ELSE Digits(n \div 10) \o CharAt("0123456789", (n % 10) + 1)

\* the six digits of u
Pad6(u) == SubSeq(Digits(1000000 + u), 2, 7)

Decimal(v) == IF v.m = 0 THEN Digits(v.u) ELSE Digits(v.m) \o Pad6(v.u)

\* str(x) of a cell, as astype(str) applies it (floats below 1e16)
PyStr(v) ==
    CASE v.t = "str" -> v.s
      [] v.t = "int" -> Decimal(v)
      [] v.t = "float" -> Decimal(v) \o (IF v.h = 1 THEN ".5" ELSE ".0")
      [] v.t = "bool" -> IF v.u = 1 THEN "True" ELSE "False"
      [] v.t = "datetime" -> "2020-01-0" \o Digits(v.u) \o " 00:00:00"
      [] OTHER -> "nan"

\* len(str(x).split(' '))
WordCount(s) == Cardinality({i \in 1..Len(s) : CharAt(s, i) = " "}) + 1

Max(S_) == CHOOSE n \in S_ : \A k \in S_ : k <= n

(***************************************************************************)
(* Constants of the detector.  Thresholds are in tenths.                   *)
(***************************************************************************)
DATETIME_MATCHES_THRESHOLD == 5

MAXIMUM_WORD_LENGTH_FOR_CATEGORY_FEATURES == 40

MULTITHREAD_MAX_NUM_ENTRIES == 500000

NUMBER_TYPE_MATCHES_THRESHOLD == 8

STRING_TYPE_MATCHES_THRESHOLD == 3

\* the literal 0.8 of the distinct-ratio test
TEXT_DISTINCT_RATIO == 8

\* the default of kwargs.get('category_cardinality_threshold', 255)
DEFAULT_CATEGORY_CARDINALITY == 255

RESERVED_PHONE_NUMBER_WORDS == {"phone", "landline"}

RESERVED_ZIP_CODE_WORDS == {"zip", "postal", "zipcode", "postcode"}

ColumnType ==
    {"DATETIME", "EMAIL", "PHONE_NUMBER", "ZIP_CODE", "NUMBER", "NUMBER_WITH_DECIMALS",
     "TRUE_OR_FALSE", "CATEGORY", "CATEGORY_HIGH_CARDINALITY", "TEXT", "UNKNOWN"}

NUMBER_TYPES == {"NUMBER", "NUMBER_WITH_DECIMALS"}

str_in_set(string, string_set) == \E entry \in string_set : Contains(entry, string)

\* count / length >= tenths / 10 in numpy arithmetic: a zero length gives nan
\* or inf with count 0, and the comparison is False
FracGeq(count, length, tenths) == length # 0 /\ 10 * count >= tenths * length

\* kwargs.get(key, default)
DictGet(kwargs, key, default) == IF key \in DOMAIN kwargs THEN kwargs[key] ELSE default

\* np.issubdtype(dtype, kind) for the storage dtypes of a frame; a pandas
\* extension dtype is not a numpy dtype and np.dtype() raises TypeError
NumpyDtypes == {"int64", "float64", "bool", "object", "datetime64[ns]", "complex128"}

IsSubdtypeRaises(dtype) == dtype \notin NumpyDtypes

IsSubdtype(dtype, kind) ==
    \/ kind = "integer" /\ dtype = "int64"
    \/ kind = "floating" /\ dtype = "float64"

\* what a call gives back: the value returned (a ColumnType, "None", or the
\* name of the exception raised), the source line that assigned it, and the
\* denominators of the divisions evaluated on the way
Outcome(mdtype, line, denoms) == [mdtype |-> mdtype, line |-> line, denoms |-> denoms]


(***************************************************************************)
(* Bounds and the columns the classifiers are run on.                      *)
(***************************************************************************)
\* columns of every order of cells have at most MaxLen cells
MaxLen == 3

\* columns made of runs of equal cells have at most MaxRun cells
MaxRun == 10

\* the tables of the fan-out have at most MaxColumns columns
MaxColumns == 3

RECURSIVE Spaces(_)
Spaces(n) == IF n = 0 THEN "" ELSE " " \o Spaces(n - 1)

\* a text of n words
Words(n) == "a" \o Spaces(n - 1) \o "b"

RECURSIVE Repeat(_, _)
Repeat(v, n) == IF n = 0 THEN <<>> ELSE <<v>> \o Repeat(v, n - 1)

RECURSIVE RunsOf(_, _)
RunsOf(cells, counts) ==
    IF cells = <<>> THEN <<>>
    ELSE Repeat(Head(cells), Head(counts)) \o RunsOf(Tail(cells), Tail(counts))

RECURSIVE Sum(_)
Sum(counts) == IF counts = <<>> THEN 0 ELSE Head(counts) + Sum(Tail(counts))

\* every column of at most MaxLen cells, and every column of at most MaxRun
\* cells in which equal cells are adjacent
ColumnsOf(cells) ==
    LET range == {cells[i] : i \in DOMAIN cells}
    IN  UNION {[1..n -> range] : n \in 0..MaxLen}
        \cup {RunsOf(cells, counts) :
              counts \in {c \in [DOMAIN cells -> 0..MaxRun] : Sum(c) <= MaxRun}}

NoKwargs == [key \in {} |-> 0]

Threshold(n) == [key \in {"category_cardinality_threshold"} |-> n]

Family(cells, names, dtypes, kws) ==
    [cells |-> cells, names |-> names, dtypes |-> dtypes, kws |-> kws]

Families ==
    { \* integer storage: the zip range and the lower phone bound
      Family(<<IntV(0, 99), IntV(0, 100), IntV(0, 99999), IntV(0, 100000), IntV(1000, 0)>>,
             {"Phone", "zip_code", "id"}, {"int64"}, {NoKwargs}),
      \* integer and floating storage: the phone range
      Family(<<IntV(999, 999999), IntV(1000, 0), IntV(999999, 999999), IntV(1000000, 0)>>,
             {"Phone", "landline", "postcode_phone"}, {"int64", "float64"}, {NoKwargs}),
      \* floating storage: nulls and fractions
      Family(<<NoneV, FloatV(1000, 0, 0), FloatV(1000, 0, 1), FloatV(0, 100, 0)>>,
             {"phone", "postal"}, {"float64"}, {NoKwargs}),
      \* storage the dispatcher decides alone
      Family(<<DtV(1), DtV(2), NoneV>>, {"id"}, {"datetime64[ns]"}, {NoKwargs}),
      Family(<<FloatV(0, 1, 0), FloatV(0, 2, 1), NoneV>>, {"id"}, {"complex128"}, {NoKwargs}),
      Family(<<StrV("x"), StrV("y"), NoneV>>, {"id"}, {"category"}, {NoKwargs}),
      Family(<<BoolV(TRUE), BoolV(FALSE)>>, {"id"}, {"bool"}, {NoKwargs}),
      \* object storage: datetime, email, phone, zip and plain text
      Family(<<StrV("2020-1-1"), StrV("a@b.c"), StrV("555-123-4567"), StrV("12345-6789"),
               StrV("x")>>,
             {"id", "Phone", "ZIP", "phone_zip", "Landline"}, {"object"}, {NoKwargs}),
      \* object storage: text that reads as numbers
      Family(<<StrV("5551234567"), StrV("5551234568"), StrV("12345"), StrV("90210"),
               StrV("1.5")>>,
             {"id", "Phone", "ZIP", "phone_zip", "Landline"}, {"object"}, {NoKwargs}),
      Family(<<StrV("$1,000"), StrV("7"), StrV("5 %"), StrV("12345"), StrV("x")>>,
             {"id", "postal"}, {"object"}, {NoKwargs}),
      \* object storage: free text and categories
      Family(<<StrV("x"), StrV("y"), StrV("z"), StrV("w"), StrV(Words(40)), StrV(Words(41))>>,
             {"id"}, {"object"}, {NoKwargs, Threshold(2), Threshold(3), Threshold(4)}),
      \* object storage: quotes, blanks and nulls
      Family(<<StrV(""), StrV(" '\" "), NoneV, StrV(" x "), StrV("x'"), StrV("y"), StrV("\"z\"")>>,
             {"id"}, {"object"}, {NoKwargs}),
      \* object storage: cells of several Python types
      Family(<<IntV(0, 1), FloatV(0, 1, 0), BoolV(TRUE), NoneV, StrV("a@b.c"), StrV("2")>>,
             {"id"}, {"object"}, {NoKwargs}) }

(***************************************************************************)
(* The patterns are matched once for each text a cell can hold after       *)
(* cleaning, and looked up from then on.                                   *)
(***************************************************************************)
CellTexts == {PyStr(IF c.t = "str" THEN StrV(Strip(c.s)) ELSE c) :
              c \in UNION {{f.cells[i] : i \in DOMAIN f.cells} : f \in Families}}

NumberTexts == {s \in CellTexts : ReMatch(REGEX_NUMBER, s)}

DatetimeTexts == {s \in CellTexts : ReMatch(REGEX_DATETIME, s)}

EmailTexts == {s \in CellTexts : ReMatch(REGEX_EMAIL, s)}

PhoneTexts == {s \in CellTexts : ReMatch(REGEX_PHONE_NUMBER, s)}

ZipTexts == {s \in CellTexts : ReMatch(REGEX_ZIP_CODE, s)}

FloatSymTexts == {s \in CellTexts : ReSearch(REGEX_FLOAT_NEW_SYM, s)}

\* series.str.match(pattern) of one cell
StrMatch(re, table, s) == IF s \in CellTexts THEN s \in table ELSE ReMatch(re, s)

\* series.str.contains(pattern) of one cell
StrContains(re, table, s) == IF s \in CellTexts THEN s \in table ELSE ReSearch(re, s)

(***************************************************************************)
(* infer_number_type(series, column_name, dtype)                           *)
(***************************************************************************)
\* mutant: the upper bound of the phone range taken inclusive
IsPhoneNumeric_UpperInclusive(v) ==
    NumGeq(v, 1000, 0) /\ NumLeq(v, 1000000, 0) /\ IsWhole(v)

IsPhoneNumeric(v) == NumGeq(v, 1000, 0) /\ NumLess(v, 1000000, 0) /\ IsWhole(v)

\* mutant: the test for an empty series left out
infer_number_type_NoEmptyGuard(series, column_name, dtype) ==
    LET clean_series == DropNa(series)
        length == SeriesLen(clean_series)
        correct_phone_nums == MaskSum(clean_series,
                    [i \in DOMAIN clean_series.vals |-> IsPhoneNumeric(clean_series.vals[i])])
    IN  IF /\ FracGeq(correct_phone_nums, length, NUMBER_TYPE_MATCHES_THRESHOLD)
           /\ Contains("phone", ToLower(column_name))
        THEN Outcome("PHONE_NUMBER", 109, {length})
        ELSE IF IsSubdtype(dtype, "integer")
        THEN IF /\ \A i \in DOMAIN clean_series.vals : NumGeq(clean_series.vals[i], 0, 100)
                /\ \A i \in DOMAIN clean_series.vals : NumLeq(clean_series.vals[i], 0, 99999)
                /\ str_in_set(ToLower(column_name), RESERVED_ZIP_CODE_WORDS)
             THEN Outcome("ZIP_CODE", 117, {length})
             ELSE Outcome("NUMBER", 119, {length})
        ELSE IF IsSubdtype(dtype, "floating")
        THEN Outcome("NUMBER_WITH_DECIMALS", 121, {length})
        ELSE Outcome("UnboundLocalError", 122, {length})

infer_number_type(series, column_name, dtype) ==
    LET clean_series == DropNa(series)
        length == SeriesLen(clean_series)
        correct_phone_nums == MaskSum(clean_series,
                    [i \in DOMAIN clean_series.vals |-> IsPhoneNumeric(clean_series.vals[i])])
    IN  IF length = 0 THEN Outcome("NUMBER_WITH_DECIMALS", 100, {})
        ELSE IF /\ FracGeq(correct_phone_nums, length, NUMBER_TYPE_MATCHES_THRESHOLD)
                /\ Contains("phone", ToLower(column_name))
        THEN Outcome("PHONE_NUMBER", 109, {length})
        ELSE IF IsSubdtype(dtype, "integer")
        THEN IF /\ \A i \in DOMAIN clean_series.vals : NumGeq(clean_series.vals[i], 0, 100)
                /\ \A i \in DOMAIN clean_series.vals : NumLeq(clean_series.vals[i], 0, 99999)
                /\ str_in_set(ToLower(column_name), RESERVED_ZIP_CODE_WORDS)
             THEN Outcome("ZIP_CODE", 117, {length})
             ELSE Outcome("NUMBER", 119, {length})
        ELSE IF IsSubdtype(dtype, "floating")
        THEN Outcome("NUMBER_WITH_DECIMALS", 121, {length})
        ELSE Outcome("UnboundLocalError", 122, {length})

(***************************************************************************)
(* infer_object_type_internal(series, column_name, kwargs)                 *)
(***************************************************************************)
\* lines 149-155: strip the strings, turn '' into a null, drop the nulls and
\* cast what is left to str
StripCell(v) == IF v.t = "str" THEN StrV(Strip(v.s)) ELSE v

EmptyToNan(v) == IF v.t # "str" \/ v.s # "" THEN v ELSE NoneV

CleanSeries(series) ==
    LET stripped == [i \in DOMAIN series.vals |-> EmptyToNan(StripCell(series.vals[i]))]
        kept == SelectSeq(stripped, LAMBDA v : ~IsNull(v))
    IN  Series([i \in DOMAIN kept |-> StrV(PyStr(kept[i]))], series.tile)

\* type(clean_series_raw.iloc[0]) if clean_series.count().compute() else None
ExactDtype(clean_series) == IF SeriesLen(clean_series) > 0 THEN "str" ELSE "None"

\* type(exact_dtype): exact_dtype is a class or None
TypeOf(exact_dtype) == IF exact_dtype = "None" THEN "NoneType" ELSE "type"

MatchesNumber(v) == StrMatch(REGEX_NUMBER, NumberTexts, v.s)

MatchesDatetime(v) == StrMatch(REGEX_DATETIME, DatetimeTexts, v.s)

MatchesPhone(v) == StrMatch(REGEX_PHONE_NUMBER, PhoneTexts, v.s)

MatchesZip(v) == StrMatch(REGEX_ZIP_CODE, ZipTexts, v.s)

HasFloatSym(v) == StrContains(REGEX_FLOAT_NEW_SYM, FloatSymTexts, v.s)

\* a cell of clean_series_email that matches REGEX_EMAIL
IsCorrectEmail(v) == Contains("@", v.s) /\ StrMatch(REGEX_EMAIL, EmailTexts, v.s)

\* mutant: a value of exactly 40 words taken for text
object_text_fallback_WordsInclusive(clean_series, clean_series_nunique, exact_dtype, kwargs) ==
    LET length == SeriesLen(clean_series)
        word_count == Max({WordCount(clean_series.vals[i].s) : i \in DOMAIN clean_series.vals})
    IN  IF TypeOf(exact_dtype) = "list" THEN Outcome("TEXT", 223, {length})
        ELSE IF FracGeq(clean_series_nunique, length, TEXT_DISTINCT_RATIO)
        THEN Outcome("TEXT", 225, {length})
        ELSE IF word_count >= MAXIMUM_WORD_LENGTH_FOR_CATEGORY_FEATURES
        THEN Outcome("TEXT", 229, {length})
        ELSE IF clean_series_nunique <=
                DictGet(kwargs, "category_cardinality_threshold", DEFAULT_CATEGORY_CARDINALITY)
        THEN Outcome("CATEGORY", 234, {length})
        ELSE Outcome("CATEGORY_HIGH_CARDINALITY", 236, {length})

\* lines 222-236: free text or a category
object_text_fallback(clean_series, clean_series_nunique, exact_dtype, kwargs) ==
    LET length == SeriesLen(clean_series)
        word_count == Max({WordCount(clean_series.vals[i].s) : i \in DOMAIN clean_series.vals})
    IN  IF TypeOf(exact_dtype) = "list" THEN Outcome("TEXT", 223, {length})
        ELSE IF FracGeq(clean_series_nunique, length, TEXT_DISTINCT_RATIO)
        THEN Outcome("TEXT", 225, {length})
        ELSE IF word_count > MAXIMUM_WORD_LENGTH_FOR_CATEGORY_FEATURES
        THEN Outcome("TEXT", 229, {length})
        ELSE IF clean_series_nunique <=
                DictGet(kwargs, "category_cardinality_threshold", DEFAULT_CATEGORY_CARDINALITY)
        THEN Outcome("CATEGORY", 234, {length})
        ELSE Outcome("CATEGORY_HIGH_CARDINALITY", 236, {length})

\* mutant: the phone and zip rules tried before the test for '.' and '%'
object_number_branch_DecimalsLast(clean_series, column_name) ==
    LET length == SeriesLen(clean_series)
        lowercase_column_name == ToLower(column_name)
        correct_phone_nums == MaskSum(clean_series,
                    [i \in DOMAIN clean_series.vals |-> MatchesPhone(clean_series.vals[i])])
        correct_zip_codes == MaskSum(clean_series,
                    [i \in DOMAIN clean_series.vals |-> MatchesZip(clean_series.vals[i])])
    IN  IF /\ FracGeq(correct_phone_nums, length, NUMBER_TYPE_MATCHES_THRESHOLD)
           /\ str_in_set(lowercase_column_name, RESERVED_PHONE_NUMBER_WORDS)
        THEN Outcome("PHONE_NUMBER", 188, {length})
        ELSE IF /\ FracGeq(correct_zip_codes, length, NUMBER_TYPE_MATCHES_THRESHOLD)
                /\ str_in_set(lowercase_column_name, RESERVED_ZIP_CODE_WORDS)
        THEN Outcome("ZIP_CODE", 192, {length})
        ELSE IF MaskSum(clean_series,
                    [i \in DOMAIN clean_series.vals |-> HasFloatSym(clean_series.vals[i])]) # 0
        THEN Outcome("NUMBER_WITH_DECIMALS", 180, {length})
        ELSE Outcome("NUMBER", 194, {length})

\* lines 179-194: every cell matches REGEX_NUMBER
object_number_branch(clean_series, column_name) ==
    LET length == SeriesLen(clean_series)
        lowercase_column_name == ToLower(column_name)
        correct_phone_nums == MaskSum(clean_series,
                    [i \in DOMAIN clean_series.vals |-> MatchesPhone(clean_series.vals[i])])
        correct_zip_codes == MaskSum(clean_series,
                    [i \in DOMAIN clean_series.vals |-> MatchesZip(clean_series.vals[i])])
    IN  IF MaskSum(clean_series,
                [i \in DOMAIN clean_series.vals |-> HasFloatSym(clean_series.vals[i])]) # 0
        THEN Outcome("NUMBER_WITH_DECIMALS", 180, {})
        ELSE IF /\ FracGeq(correct_phone_nums, length, NUMBER_TYPE_MATCHES_THRESHOLD)
                /\ str_in_set(lowercase_column_name, RESERVED_PHONE_NUMBER_WORDS)
        THEN Outcome("PHONE_NUMBER", 188, {length})
        ELSE IF /\ FracGeq(correct_zip_codes, length, NUMBER_TYPE_MATCHES_THRESHOLD)
                /\ str_in_set(lowercase_column_name, RESERVED_ZIP_CODE_WORDS)
        THEN Outcome("ZIP_CODE", 192, {length})
        ELSE Outcome("NUMBER", 194, {length})

\* mutant: the email rule tried before the datetime rule
object_string_branch_EmailFirst(clean_series, series_nunique, clean_series_nunique, exact_dtype, column_name, kwargs) ==
    LET length == SeriesLen(clean_series)
        matches == MaskSum(clean_series,
                    [i \in DOMAIN clean_series.vals |-> MatchesDatetime(clean_series.vals[i])])
        correct_emails == MaskSum(clean_series,
                    [i \in DOMAIN clean_series.vals |-> IsCorrectEmail(clean_series.vals[i])])
        correct_phone_nums == MaskSum(clean_series,
                    [i \in DOMAIN clean_series.vals |-> MatchesPhone(clean_series.vals[i])])
        correct_zip_codes == MaskSum(clean_series,
                    [i \in DOMAIN clean_series.vals |-> MatchesZip(clean_series.vals[i])])
        lowercase_column_name == ToLower(column_name)
    IN  IF FracGeq(correct_emails, length, STRING_TYPE_MATCHES_THRESHOLD)
        THEN Outcome("EMAIL", 210, {length})
        ELSE IF FracGeq(matches, length, DATETIME_MATCHES_THRESHOLD)
        THEN Outcome("DATETIME", 199, {length})
        ELSE IF /\ FracGeq(correct_phone_nums, length, STRING_TYPE_MATCHES_THRESHOLD)
                /\ str_in_set(lowercase_column_name, RESERVED_PHONE_NUMBER_WORDS)
        THEN Outcome("PHONE_NUMBER", 214, {length})
        ELSE IF /\ FracGeq(correct_zip_codes, length, STRING_TYPE_MATCHES_THRESHOLD)
                /\ str_in_set(lowercase_column_name, RESERVED_ZIP_CODE_WORDS)
        THEN Outcome("ZIP_CODE", 218, {length})
        ELSE IF series_nunique = 2 THEN Outcome("TRUE_OR_FALSE", 220, {length})
        ELSE object_text_fallback(clean_series, clean_series_nunique, exact_dtype, kwargs)

\* lines 196-236: some cell does not match REGEX_NUMBER
object_string_branch(clean_series, series_nunique, clean_series_nunique, exact_dtype, column_name, kwargs) ==
    LET length == SeriesLen(clean_series)
        matches == MaskSum(clean_series,
                    [i \in DOMAIN clean_series.vals |-> MatchesDatetime(clean_series.vals[i])])
        correct_emails == MaskSum(clean_series,
                    [i \in DOMAIN clean_series.vals |-> IsCorrectEmail(clean_series.vals[i])])
        correct_phone_nums == MaskSum(clean_series,
                    [i \in DOMAIN clean_series.vals |-> MatchesPhone(clean_series.vals[i])])
        correct_zip_codes == MaskSum(clean_series,
                    [i \in DOMAIN clean_series.vals |-> MatchesZip(clean_series.vals[i])])
        lowercase_column_name == ToLower(column_name)
    IN  IF FracGeq(matches, length, DATETIME_MATCHES_THRESHOLD)
        THEN Outcome("DATETIME", 199, {length})
        ELSE IF FracGeq(correct_emails, length, STRING_TYPE_MATCHES_THRESHOLD)
        THEN Outcome("EMAIL", 210, {length})
        ELSE IF /\ FracGeq(correct_phone_nums, length, STRING_TYPE_MATCHES_THRESHOLD)
                /\ str_in_set(lowercase_column_name, RESERVED_PHONE_NUMBER_WORDS)
        THEN Outcome("PHONE_NUMBER", 214, {length})
        ELSE IF /\ FracGeq(correct_zip_codes, length, STRING_TYPE_MATCHES_THRESHOLD)
                /\ str_in_set(lowercase_column_name, RESERVED_ZIP_CODE_WORDS)
        THEN Outcome("ZIP_CODE", 218, {length})
        ELSE IF series_nunique = 2 THEN Outcome("TRUE_OR_FALSE", 220, {length})
        ELSE object_text_fallback(clean_series, clean_series_nunique, exact_dtype, kwargs)

\* mutant: two cleaned values no longer enough for TRUE_OR_FALSE
infer_object_type_internal_BelowTwo(series, column_name, kwargs) ==
    LET clean_series == CleanSeries(series)
        series_nunique == NUnique(series, FALSE)
        clean_series_nunique == NUnique(clean_series, TRUE)
        exact_dtype == ExactDtype(clean_series)
    IN  IF exact_dtype = "list" THEN Outcome("TEXT", 166, {})
        ELSE IF exact_dtype = "bool"
        THEN IF clean_series_nunique <= 2 THEN Outcome("TRUE_OR_FALSE", 169, {})
             ELSE Outcome("CATEGORY", 171, {})
        ELSE IF clean_series_nunique < 2 THEN Outcome("TRUE_OR_FALSE", 173, {})
        ELSE IF \A i \in DOMAIN clean_series.vals : MatchesNumber(clean_series.vals[i])
        THEN object_number_branch(clean_series, column_name)
        ELSE object_string_branch(clean_series, series_nunique, clean_series_nunique,
                                  exact_dtype, column_name, kwargs)

infer_object_type_internal(series, column_name, kwargs) ==
    LET clean_series == CleanSeries(series)
        series_nunique == NUnique(series, FALSE)
        clean_series_nunique == NUnique(clean_series, TRUE)
        exact_dtype == ExactDtype(clean_series)
    IN  IF exact_dtype = "list" THEN Outcome("TEXT", 166, {})
        ELSE IF exact_dtype = "bool"
        THEN IF clean_series_nunique <= 2 THEN Outcome("TRUE_OR_FALSE", 169, {})
             ELSE Outcome("CATEGORY", 171, {})
        ELSE IF clean_series_nunique <= 2 THEN Outcome("TRUE_OR_FALSE", 173, {})
        ELSE IF \A i \in DOMAIN clean_series.vals : MatchesNumber(clean_series.vals[i])
        THEN object_number_branch(clean_series, column_name)
        ELSE object_string_branch(clean_series, series_nunique, clean_series_nunique,
                                  exact_dtype, column_name, kwargs)

\* infer_object_type: the same series, partitioned
infer_object_type(series, column_name, kwargs) ==
    infer_object_type_internal(series, column_name, kwargs)

(***************************************************************************)
(* infer_column_type(series, column_name, dtype, kwargs): mdtype is the    *)
(* value returned, first the outcome of the dispatch of lines 126-134.     *)
(***************************************************************************)
\* mutant: the distinct values of the override counted without the nulls
infer_column_type_DropNa(series, column_name, dtype, kwargs) ==
    LET first ==
            IF Contains("datetime64", dtype) THEN Outcome("DATETIME", 128, {})
            ELSE IF dtype = "object" THEN infer_object_type(series, column_name, kwargs)
            ELSE IF dtype = "bool" THEN Outcome("TRUE_OR_FALSE", 132, {})
            ELSE IF IsSubdtypeRaises(dtype) THEN Outcome("TypeError", 133, {})
            ELSE IF IsSubdtype(dtype, "floating") \/ IsSubdtype(dtype, "integer")
            THEN infer_number_type(series, column_name, dtype)
            ELSE Outcome("None", 126, {})
    IN  [mdtype |-> IF first.mdtype \in NUMBER_TYPES /\ NUnique(series, TRUE) = 2
                    THEN "TRUE_OR_FALSE" ELSE first.mdtype,
         first |-> first]

\* mutant: mdtype starts as UNKNOWN instead of None
infer_column_type_UnknownDefault(series, column_name, dtype, kwargs) ==
    LET first ==
            IF Contains("datetime64", dtype) THEN Outcome("DATETIME", 128, {})
            ELSE IF dtype = "object" THEN infer_object_type(series, column_name, kwargs)
            ELSE IF dtype = "bool" THEN Outcome("TRUE_OR_FALSE", 132, {})
            ELSE IF IsSubdtypeRaises(dtype) THEN Outcome("TypeError", 133, {})
            ELSE IF IsSubdtype(dtype, "floating") \/ IsSubdtype(dtype, "integer")
            THEN infer_number_type(series, column_name, dtype)
            ELSE Outcome("UNKNOWN", 126, {})
    IN  [mdtype |-> IF first.mdtype \in NUMBER_TYPES /\ NUnique(series, FALSE) = 2
                    THEN "TRUE_OR_FALSE" ELSE first.mdtype,
         first |-> first]

infer_column_type(series, column_name, dtype, kwargs) ==
    LET first ==
            IF Contains("datetime64", dtype) THEN Outcome("DATETIME", 128, {})
            ELSE IF dtype = "object" THEN infer_object_type(series, column_name, kwargs)
            ELSE IF dtype = "bool" THEN Outcome("TRUE_OR_FALSE", 132, {})
            ELSE IF IsSubdtypeRaises(dtype) THEN Outcome("TypeError", 133, {})
            ELSE IF IsSubdtype(dtype, "floating") \/ IsSubdtype(dtype, "integer")
            THEN infer_number_type(series, column_name, dtype)
            ELSE Outcome("None", 126, {})
    IN  [mdtype |-> IF first.mdtype \in NUMBER_TYPES /\ NUnique(series, FALSE) = 2
                    THEN "TRUE_OR_FALSE" ELSE first.mdtype,
         first |-> first]

NoOutcome == Outcome("", 0, {})

NoReturn == [mdtype |-> "", first |-> NoOutcome]

Exceptions == {"TypeError", "UnboundLocalError"}

Raised(r) == r.mdtype \in Exceptions

(***************************************************************************)
(* The tables of the fan-out.  A table has a row pattern of RowLen cells   *)
(* in each column, repeated tile times.                                    *)
(***************************************************************************)
Column(name, dtype, vals) == [name |-> name, dtype |-> dtype, vals |-> vals]

TableColumns ==
    { Column("zip_code", "int64", <<IntV(0, 100)>>),
      Column("email", "object", <<StrV("a@b.c")>>),
      Column("created", "datetime64[ns]", <<DtV(1)>>),
      Column("amount", "float64", <<NoneV>>),
      Column("grade", "category", <<StrV("x")>>),
      Column("zip_code", "int64", <<IntV(0, 100), IntV(0, 99999), IntV(0, 100), IntV(0, 100)>>),
      Column("email", "object", <<StrV("a@b.c"), StrV("x"), StrV("2020-1-1"), StrV("a@b.c")>>),
      Column("colour", "object", <<StrV("x"), StrV("y"), StrV("z"), StrV("x")>>),
      Column("phone", "float64", <<FloatV(1000, 0, 0), NoneV, NoneV, FloatV(1000, 0, 0)>>),
      Column("grade", "category", <<StrV("x"), StrV("y"), StrV("x"), NoneV>>) }

RowLens == {1, 4}

Tiles == {1, MULTITHREAD_MAX_NUM_ENTRIES \div 4, MULTITHREAD_MAX_NUM_ENTRIES \div 4 + 1,
          MULTITHREAD_MAX_NUM_ENTRIES, MULTITHREAD_MAX_NUM_ENTRIES + 1}

\* the tables: columns of distinct names and equal length
Tables ==
    {cols \in UNION {[1..n -> TableColumns] : n \in 0..MaxColumns} :
        /\ \A i, j \in DOMAIN cols : i # j => cols[i].name # cols[j].name
        /\ \E len \in RowLens : \A i \in DOMAIN cols : Len(cols[i].vals) = len}

\* len(df)
NumEntries(d) == IF d.columns = <<>> THEN 0 ELSE Len(d.columns[1].vals) * d.tile

\* infer_column_type(df[col], col, df.dtypes[col], kwargs)
ColumnOutcome(d, i, kw) ==
    infer_column_type(Series(d.columns[i].vals, d.tile), d.columns[i].name,
                      d.columns[i].dtype, kw)

\* ctypes[col] = dtype, in a dict that keeps the order of insertion
DictSet(dict, key, value) ==
    IF \E i \in DOMAIN dict : dict[i][1] = key
    THEN [i \in DOMAIN dict |-> IF dict[i][1] = key THEN <<key, value>> ELSE dict[i]]
    ELSE Append(dict, <<key, value>>)

\* mutant: the types paired with the columns from the wrong end
ZipAt_Reversed(columns, type_list, i) == <<columns[i].name, type_list[Len(type_list) + 1 - i]>>

\* the pair that zip(df.columns, types) yields at position i
ZipAt(columns, type_list, i) == <<columns[i].name, type_list[i]>>

VARIABLES
    series, column_name, dtype, kwargs,  \* the arguments of infer_column_type
    ret,        \* what the call gave back
    pc,         \* where the call is
    df,         \* the table of infer_column_types
    order,      \* the tasks of the worker pool, in the order they completed
    types,      \* the types the worker pool handed back
    ctypes,     \* the mapping under construction
    error,      \* the exception that left infer_column_types
    result      \* the mapping returned

vars == <<series, column_name, dtype, kwargs, ret, pc, df, order, types, ctypes, error, result>>

columnVars == <<series, column_name, dtype, kwargs, ret>>

tableVars == <<df, order, types, ctypes, error, result>>

NoDf == [columns |-> <<>>, tile |-> 0]

NoResult == <<"no mapping">>

(***************************************************************************)
(* One call of infer_column_type.                                          *)
(***************************************************************************)
Init ==
    /\ \E f \in Families :
          /\ series \in {Series(vals, 1) : vals \in ColumnsOf(f.cells)}
          /\ column_name \in f.names
          /\ dtype \in f.dtypes
          /\ kwargs \in f.kws
    /\ ret = NoReturn
    /\ pc = "call"
    /\ df = NoDf /\ order = <<>> /\ types = <<>> /\ ctypes = <<>>
    /\ error = "" /\ result = NoResult

InferColumnType ==
    /\ pc = "call"
    /\ ret' = infer_column_type(series, column_name, dtype, kwargs)
    /\ pc' = IF Raised(ret') THEN "raised" ELSE "returned"
    /\ UNCHANGED <<series, column_name, dtype, kwargs>>
    /\ UNCHANGED tableVars

Next == InferColumnType

Spec == Init /\ [][Next]_vars

(***************************************************************************)
(* One call of infer_column_types(df, **kwargs).                           *)
(***************************************************************************)
TableInit ==
    /\ df \in {[columns |-> cols, tile |-> tile] : cols \in Tables, tile \in Tiles}
    /\ kwargs \in {NoKwargs, Threshold(2)}
    /\ pc = "begin"
    /\ order = <<>> /\ types = <<>> /\ ctypes = <<>>
    /\ error = "" /\ result = NoResult
    /\ series = Series(<<>>, 0) /\ column_name = "" /\ dtype = "" /\ ret = NoReturn

\* lines 241-250: the choice of the path
Begin ==
    /\ pc = "begin"
    /\ pc' = IF NumEntries(df) > MULTITHREAD_MAX_NUM_ENTRIES THEN "pool" ELSE "map"
    /\ UNCHANGED <<df, kwargs, order, types, ctypes, error, result>>
    /\ UNCHANGED columnVars

\* run_parallel_multiple_args: a worker completes the task of one column
PoolTask ==
    /\ pc = "pool"
    /\ \E i \in DOMAIN df.columns \ {order[k] : k \in DOMAIN order} :
          order' = Append(order, i)
    /\ UNCHANGED <<df, kwargs, pc, types, ctypes, error, result>>
    /\ UNCHANGED columnVars

\* run_parallel_multiple_args: the results are joined, one per column and in
\* the order of the columns; the exception of a task leaves the call
PoolJoin ==
    /\ pc = "pool"
    /\ Len(order) = Len(df.columns)
    /\ LET outcomes == [i \in DOMAIN df.columns |-> ColumnOutcome(df, i, kwargs)]
           failed == {i \in DOMAIN outcomes : Raised(outcomes[i])}
       IN  IF failed = {}
           THEN /\ types' = [i \in DOMAIN outcomes |-> outcomes[i].mdtype]
                /\ pc' = "loop"
                /\ error' = error
           ELSE /\ \E i \in failed : error' = outcomes[i].mdtype
                /\ pc' = "raised"
                /\ types' = types
    /\ UNCHANGED <<df, kwargs, order, ctypes, result>>
    /\ UNCHANGED columnVars

\* mutant: the exception of a column caught and UNKNOWN stored for it
MapLoopStep_Swallow ==
    /\ pc = "map"
    /\ Len(types) < Len(df.columns)
    /\ LET i == Len(types) + 1
           outcome == ColumnOutcome(df, i, kwargs)
       IN  /\ types' = Append(types, IF Raised(outcome) THEN "UNKNOWN" ELSE outcome.mdtype)
           /\ ctypes' = LET pair == ZipAt(df.columns, types', i)
                        IN  DictSet(ctypes, pair[1], pair[2])
           /\ UNCHANGED <<error, pc>>
    /\ UNCHANGED <<df, kwargs, order, result>>
    /\ UNCHANGED columnVars

\* lines 251-252 after map(): the next column is classified when the loop
\* asks for its type, and the type is stored
MapLoopStep ==
    /\ pc = "map"
    /\ Len(types) < Len(df.columns)
    /\ LET i == Len(types) + 1
           outcome == ColumnOutcome(df, i, kwargs)
       IN  IF Raised(outcome)
           THEN /\ error' = outcome.mdtype
                /\ pc' = "raised"
                /\ UNCHANGED <<types, ctypes>>
           ELSE /\ types' = Append(types, outcome.mdtype)
                /\ ctypes' = LET pair == ZipAt(df.columns, types', i)
                             IN  DictSet(ctypes, pair[1], pair[2])
                /\ UNCHANGED <<error, pc>>
    /\ UNCHANGED <<df, kwargs, order, result>>
    /\ UNCHANGED columnVars

\* lines 251-252 after the worker pool: the next type is stored
PoolLoopStep ==
    /\ pc = "loop"
    /\ Len(ctypes) < Len(df.columns)
    /\ ctypes' = LET pair == ZipAt(df.columns, types, Len(ctypes) + 1)
                 IN  DictSet(ctypes, pair[1], pair[2])
    /\ UNCHANGED <<df, kwargs, pc, order, types, error, result>>
    /\ UNCHANGED columnVars

\* line 253
Return ==
    /\ \/ pc = "map" /\ Len(types) = Len(df.columns)
       \/ pc = "loop" /\ Len(ctypes) = Len(df.columns)
    /\ result' = ctypes
    /\ pc' = "returned"
    /\ UNCHANGED <<df, kwargs, order, types, ctypes, error>>
    /\ UNCHANGED columnVars

TableNext == Begin \/ PoolTask \/ PoolJoin \/ MapLoopStep \/ PoolLoopStep \/ Return

TableSpec == TableInit /\ [][TableNext]_vars

(***************************************************************************)
(* Properties of infer_column_type, checked under Spec.                    *)
(***************************************************************************)

\* C1 (as stated): every column with exactly two distinct values, nulls
\* counted as one, gets TRUE_OR_FALSE whatever its storage (datetime-like,
\* object, boolean, integer or floating) and whatever its name.
C1_TwoValuesAlwaysBoolean ==
    (/\ pc = "returned"
     /\ dtype \in {"datetime64[ns]", "object", "bool", "int64", "float64"}
     /\ Cardinality({HashKey(series.vals[i]) : i \in DOMAIN series.vals}) = 2)
    => ret.mdtype = "TRUE_OR_FALSE"

\* C1 (amended): a column with exactly two distinct values gets TRUE_OR_FALSE
\* when its storage is boolean, when it is integer or floating and the
\* numeric classifier did not answer PHONE_NUMBER or ZIP_CODE, and when it is
\* object and the cascade did not answer DATETIME, EMAIL, PHONE_NUMBER or
\* ZIP_CODE, which it cannot when at most two distinct cleaned values are
\* left; a datetime-like column stays DATETIME and a numeric column found to
\* be a phone number or a zip code keeps that type.
C1_TwoValuesBooleanUnlessSpecific ==
    (/\ pc = "returned"
     /\ dtype \in {"datetime64[ns]", "object", "bool", "int64", "float64"}
     /\ Cardinality({HashKey(series.vals[i]) : i \in DOMAIN series.vals}) = 2)
    => LET specific == {"DATETIME", "EMAIL", "PHONE_NUMBER", "ZIP_CODE"}
           numeric == infer_number_type(series, column_name, dtype).mdtype
           cleaned == {PyStr(StripCell(series.vals[i])) :
                       i \in {j \in DOMAIN series.vals : ~IsNull(series.vals[j])}} \ {""}
       IN  /\ dtype = "bool" => ret.mdtype = "TRUE_OR_FALSE"
           /\ dtype = "datetime64[ns]" => ret.mdtype = "DATETIME"
           /\ dtype \in {"int64", "float64"} =>
                 ret.mdtype = IF numeric \in {"PHONE_NUMBER", "ZIP_CODE"} THEN numeric
                              ELSE "TRUE_OR_FALSE"
           /\ dtype = "object" =>
                 /\ ret.mdtype \in specific \cup {"TRUE_OR_FALSE"}
                 /\ Cardinality(cleaned) <= 2 => ret.mdtype = "TRUE_OR_FALSE"

\* C1 witness: an integer column of two values whose NUMBER was overridden
C1_Witness ==
    /\ pc = "returned" /\ dtype = "int64"
    /\ Cardinality({HashKey(series.vals[i]) : i \in DOMAIN series.vals}) = 2
    /\ ret.first.mdtype = "NUMBER" /\ ret.mdtype = "TRUE_OR_FALSE"

C5_NoEmptyDenominator ==
    (pc # "call" /\ dtype \in {"object", "int64", "float64"})
    => /\ pc = "returned"
       /\ ret.mdtype \in ColumnType
       /\ \A d \in ret.first.denoms : d > 0

\* C5 witness: a non-empty object column all of whose cells are nulls, blanks
\* or quotes has been classified
C5_Witness ==
    /\ pc = "returned" /\ dtype = "object" /\ Len(series.vals) > 1
    /\ \A i \in DOMAIN series.vals :
          \/ IsNull(series.vals[i])
          \/ series.vals[i].t = "str" /\ Strip(series.vals[i].s) = ""
    /\ \E i \in DOMAIN series.vals : series.vals[i].t = "str"

\* C6: for integer or floating storage infer_number_type answers
\* NUMBER_WITH_DECIMALS when no non-null value is left; else PHONE_NUMBER when
\* at least 0.8 of the values are whole numbers in [1e9, 1e12) and the
\* lower-cased name contains "phone"; else, for integer storage, ZIP_CODE when
\* min >= 100, max <= 99999 and the name has a zip keyword, NUMBER if not;
\* else, for floating storage, NUMBER_WITH_DECIMALS.
C6_NumberRules ==
    (pc = "returned" /\ dtype \in {"int64", "float64"})
    => LET nonnull == {i \in DOMAIN series.vals : ~IsNull(series.vals[i])}
           phones == {i \in nonnull : /\ NumGeq(series.vals[i], 1000, 0)
                                      /\ ~NumGeq(series.vals[i], 1000000, 0)
                                      /\ series.vals[i].h = 0}
           name == ToLower(column_name)
           zipName == \E w \in {"zip", "postal", "zipcode", "postcode"} : Contains(w, name)
           expected ==
               IF nonnull = {} THEN "NUMBER_WITH_DECIMALS"
               ELSE IF 10 * Cardinality(phones) >= 8 * Cardinality(nonnull)
                       /\ Contains("phone", name)
               THEN "PHONE_NUMBER"
               ELSE IF dtype = "int64"
               THEN IF /\ \A i \in nonnull : NumGeq(series.vals[i], 0, 100)
                       /\ \A i \in nonnull : NumLeq(series.vals[i], 0, 99999)
                       /\ zipName
                    THEN "ZIP_CODE" ELSE "NUMBER"
               ELSE "NUMBER_WITH_DECIMALS"
       IN  ret.first.mdtype = expected

\* C6 witness: exactly 0.8 of the values of a column named after a phone are
\* phone numbers
C6_Witness ==
    /\ pc = "returned" /\ dtype \in {"int64", "float64"}
    /\ ret.first.mdtype = "PHONE_NUMBER"
    /\ Len(series.vals) = 5
    /\ Cardinality({i \in DOMAIN series.vals : NumGeq(series.vals[i], 1000, 0)
                                               /\ ~NumGeq(series.vals[i], 1000000, 0)}) = 4

\* C7: in the object cascade, with more than 2 distinct cleaned values of
\* which not every one matches NUMBER, the rules apply in the order datetime,
\* email, phone, zip and the first that matches decides: a DATETIME fraction
\* >= 0.5 gives DATETIME; else an EMAIL fraction >= 0.3 gives EMAIL; else a
\* phone fraction >= 0.3 with a phone keyword gives PHONE_NUMBER; else a zip
\* fraction >= 0.3 with a zip keyword gives ZIP_CODE; and PHONE_NUMBER and
\* ZIP_CODE are never answered for a name without the keyword.
C7_StringRulesInOrder ==
    (pc = "returned" /\ dtype = "object")
    => LET clean == CleanSeries(series).vals
           L == Len(clean)
           count(Test(_)) == Cardinality({i \in DOMAIN clean : Test(clean[i])})
           name == ToLower(column_name)
           phoneName == \E w \in {"phone", "landline"} : Contains(w, name)
           zipName == \E w \in {"zip", "postal", "zipcode", "postcode"} : Contains(w, name)
           got == ret.first.mdtype
       IN  /\ got = "PHONE_NUMBER" => phoneName
           /\ got = "ZIP_CODE" => zipName
           /\ (/\ Cardinality({clean[i].s : i \in DOMAIN clean}) > 2
               /\ \E i \in DOMAIN clean : ~MatchesNumber(clean[i]))
              => IF 10 * count(MatchesDatetime) >= 5 * L THEN got = "DATETIME"
                 ELSE IF 10 * count(IsCorrectEmail) >= 3 * L THEN got = "EMAIL"
                 ELSE IF 10 * count(MatchesPhone) >= 3 * L /\ phoneName
                 THEN got = "PHONE_NUMBER"
                 ELSE IF 10 * count(MatchesZip) >= 3 * L /\ zipName THEN got = "ZIP_CODE"
                 ELSE got \notin {"DATETIME", "EMAIL", "PHONE_NUMBER", "ZIP_CODE"}

\* C7 witness: DATETIME was answered for a column that also meets the email,
\* the phone and the zip condition
C7_Witness ==
    /\ pc = "returned" /\ dtype = "object" /\ ret.first.mdtype = "DATETIME"
    /\ LET clean == CleanSeries(series).vals
       IN  /\ 10 * Cardinality({i \in DOMAIN clean : IsCorrectEmail(clean[i])}) >= 3 * Len(clean)
           /\ \E i \in DOMAIN clean : MatchesPhone(clean[i])
    /\ Contains("phone", ToLower(column_name))

\* C8: in the object cascade, with more than 2 distinct cleaned values that
\* all match NUMBER, the answer is NUMBER_WITH_DECIMALS when a value holds
\* '.' or '%'; else PHONE_NUMBER when the phone fraction is >= 0.8 and the
\* name has a phone keyword; else ZIP_CODE when the zip fraction is >= 0.8 and
\* the name has a zip keyword; else NUMBER.
C8_NumberBranch ==
    (pc = "returned" /\ dtype = "object")
    => LET clean == CleanSeries(series).vals
           L == Len(clean)
           count(Test(_)) == Cardinality({i \in DOMAIN clean : Test(clean[i])})
           name == ToLower(column_name)
           phoneName == \E w \in {"phone", "landline"} : Contains(w, name)
           zipName == \E w \in {"zip", "postal", "zipcode", "postcode"} : Contains(w, name)
           decimal == \E i \in DOMAIN clean : Contains(".", clean[i].s) \/ Contains("%", clean[i].s)
       IN  (/\ Cardinality({clean[i].s : i \in DOMAIN clean}) > 2
            /\ \A i \in DOMAIN clean : MatchesNumber(clean[i]))
           => ret.first.mdtype =
                 IF decimal THEN "NUMBER_WITH_DECIMALS"
                 ELSE IF 10 * count(MatchesPhone) >= 8 * L /\ phoneName THEN "PHONE_NUMBER"
                 ELSE IF 10 * count(MatchesZip) >= 8 * L /\ zipName THEN "ZIP_CODE"
                 ELSE "NUMBER"

\* C8 witness: NUMBER_WITH_DECIMALS was answered for a column that meets the
\* phone condition
C8_Witness ==
    /\ pc = "returned" /\ dtype = "object" /\ ret.first.mdtype = "NUMBER_WITH_DECIMALS"
    /\ ret.first.line = 180
    /\ LET clean == CleanSeries(series).vals
       IN  10 * Cardinality({i \in DOMAIN clean : MatchesPhone(clean[i])}) >= 8 * Len(clean)
    /\ Contains("phone", ToLower(column_name))

\* C9: an object column that reaches the free-text fallback is TEXT when
\* clean_distinct / L >= 0.8 or when the largest count of words split on a
\* single space exceeds 40; else CATEGORY exactly when clean_distinct is at
\* most category_cardinality_threshold (255 when absent), and
\* CATEGORY_HIGH_CARDINALITY if not.
C9_TextFallback ==
    (pc = "returned" /\ dtype = "object" /\ ret.first.line > 220)
    => LET clean == CleanSeries(series).vals
           L == Len(clean)
           distinct == Cardinality({clean[i].s : i \in DOMAIN clean})
           words(s) == Cardinality({k \in 1..Len(s) : SubSeq(s, k, k) = " "}) + 1
           threshold == IF "category_cardinality_threshold" \in DOMAIN kwargs
                        THEN kwargs["category_cardinality_threshold"] ELSE 255
       IN  ret.first.mdtype =
              IF 10 * distinct >= 8 * L \/ \E i \in DOMAIN clean : words(clean[i].s) > 40
              THEN "TEXT"
              ELSE IF distinct <= threshold THEN "CATEGORY"
              ELSE "CATEGORY_HIGH_CARDINALITY"

\* C9 witness: a column whose longest value has exactly 40 words was a
\* category with as many distinct values as the threshold allows
C9_Witness ==
    /\ pc = "returned" /\ dtype = "object" /\ ret.first.mdtype = "CATEGORY"
    /\ "category_cardinality_threshold" \in DOMAIN kwargs
    /\ LET clean == CleanSeries(series).vals
       IN  /\ Cardinality({clean[i].s : i \in DOMAIN clean}) = kwargs["category_cardinality_threshold"]
           /\ \E i \in DOMAIN clean : WordCount(clean[i].s) = 40

\* C10 (as stated): for every object column clean_distinct never exceeds
\* raw_distinct, and the rule raw_distinct == 2 -> TRUE_OR_FALSE of line 219
\* never decides.
C10_CleanNeverExceedsRaw ==
    (pc = "returned" /\ dtype = "object")
    => /\ Cardinality({c.s : c \in {CleanSeries(series).vals[i] : i \in DOMAIN CleanSeries(series).vals}})
            <= Cardinality({HashKey(series.vals[i]) : i \in DOMAIN series.vals})
       /\ ret.first.line # 220

\* C10 (amended): for every object column in which no two cells that compare
\* equal have different texts (1, 1.0 and True compare equal and read "1",
\* "1.0" and "True"), clean_distinct never exceeds raw_distinct and the rule
\* of line 219 never decides.
C10_CleanNeverExceedsRawUnlessAliased ==
    (/\ pc = "returned" /\ dtype = "object"
     /\ \A i, j \in DOMAIN series.vals :
           HashKey(series.vals[i]) = HashKey(series.vals[j])
           => PyStr(series.vals[i]) = PyStr(series.vals[j]))
    => /\ Cardinality({c.s : c \in {CleanSeries(series).vals[i] : i \in DOMAIN CleanSeries(series).vals}})
            <= Cardinality({HashKey(series.vals[i]) : i \in DOMAIN series.vals})
       /\ ret.first.line # 220

\* C10 witness: the rule of line 219 was evaluated, and did not hold, for a
\* column of strings that lose quotes and blanks in cleaning
C10_Witness ==
    /\ pc = "returned" /\ dtype = "object" /\ ret.first.line > 220
    /\ \A i \in DOMAIN series.vals : series.vals[i].t \in {"str", "null"}
    /\ \E i \in DOMAIN series.vals : Strip(series.vals[i].s) # series.vals[i].s

(***************************************************************************)
(* Properties of infer_column_types, checked under TableSpec.              *)
(***************************************************************************)

====
